---- MODULE Spec2Model ----
(***************************************************************************)
(* Model of the tic-tac-toe session of components/tic-tac-toe.tsx: the     *)
(* React state of the TicTacToe component, its event handlers, its five    *)
(* game effects and its three kinds of timers.                             *)
(*                                                                         *)
(* React semantics used by the model:                                      *)
(*  - a handler or timer callback reads the state of the render that       *)
(*    created it (its closure) and queues state updates; the updates are   *)
(*    committed together when the handler returns;                         *)
(*  - after a commit, every effect with a changed dependency runs, all of  *)
(*    them against the same render, and their updates are committed        *)
(*    together (action RunEffects); arrays and objects count as changed    *)
(*    whenever they are set, primitives when their value differs;          *)
(*  - commands and timer callbacks are taken when no effect is pending.    *)
(***************************************************************************)
EXTENDS Integers, Sequences, FiniteSets, TLC

\* ------------------------------------------------------------------ bounds
\* Before the first Room is created (local and computer sessions with an empty
\* Room registry) clicks fall on the cells 0..MaxCell and no move is submitted
\* that would make History longer than MaxHist.
MaxCell == 4
MaxHist == 5
\* Once a session is online or a Room or join timer exists, History is kept
\* no longer than MaxRoomHist.
MaxRoomHist == 2
\* number of simulated-join timers that may be pending at once
MaxJoinTimers == 2
\* In the specification of local play alone (SpecLocal) clicks fall on the
\* cells 0..MaxLocalCell, which hold two disjoint lines.
MaxLocalCell == 5

\* ------------------------------------------------------------- input sets
\* Once a session is online or a Room or join timer exists, clicks and the
\* random draws of the simulated opponent fall on the cells of RoomCells.
RoomCells == {0, 1}
\* the room codes generateRoomCode and the join form may produce
Codes == {"ROOM01"}

\* ------------------------------------------------------------- data model
X == "X"
O == "O"
null == "null"
draw == "draw"

Cells == 0..8
NoCode == ""

emptySquares == [i \in Cells |-> null]
AllBoards == [Cells -> {null, X, O}]

Min(S) == CHOOSE m \in S : \A n \in S : m <= n

\* SimulatedGame records of a room
newGame(playerO) ==
  [squares |-> emptySquares, isXNext |-> TRUE, playerX |-> "host",
   playerO |-> playerO, winner |-> null]

\* the registry of rooms, by room code, before any room is created
noGames == [k \in {} |-> newGame(null)]

\* --------------------------------------------------------- Board Evaluator
lines == << <<0, 1, 2>>, <<3, 4, 5>>, <<6, 7, 8>>,
            <<0, 3, 6>>, <<1, 4, 7>>, <<2, 5, 8>>,
            <<0, 4, 8>>, <<2, 4, 6>> >>

\* calculateWinner taking the last complete line instead of the first
calculateWinnerLastLine(sq) ==
  LET hit == {k \in 1..Len(lines) :
                /\ sq[lines[k][1]] # null
                /\ sq[lines[k][1]] = sq[lines[k][2]]
                /\ sq[lines[k][1]] = sq[lines[k][3]]}
  IN  IF hit # {} THEN sq[lines[CHOOSE m \in hit : \A n \in hit : m >= n][1]]
      ELSE IF \A i \in Cells : sq[i] # null THEN draw
      ELSE null

\* calculateWinner without its draw check
calculateWinnerNoDraw(sq) ==
  LET hit == {k \in 1..Len(lines) :
                /\ sq[lines[k][1]] # null
                /\ sq[lines[k][1]] = sq[lines[k][2]]
                /\ sq[lines[k][1]] = sq[lines[k][3]]}
  IN  IF hit # {} THEN sq[lines[Min(hit)][1]] ELSE null

calculateWinner(sq) ==
  LET hit == {k \in 1..Len(lines) :
                /\ sq[lines[k][1]] # null
                /\ sq[lines[k][1]] = sq[lines[k][2]]
                /\ sq[lines[k][1]] = sq[lines[k][3]]}
  IN  IF hit # {} THEN sq[lines[Min(hit)][1]]
      ELSE IF \A i \in Cells : sq[i] # null THEN draw
      ELSE null

\* findWinningMove also returning a cell that fills the board to a draw
findWinningMoveOrDraw(sq, player) ==
  LET wins == {i \in Cells :
                 /\ sq[i] = null
                 /\ calculateWinner([sq EXCEPT ![i] = player]) \in {player, draw}}
  IN  IF wins # {} THEN Min(wins) ELSE -1

findWinningMove(sq, player) ==
  LET wins == {i \in Cells :
                 /\ sq[i] = null
                 /\ calculateWinner([sq EXCEPT ![i] = player]) = player}
  IN  IF wins # {} THEN Min(wins) ELSE -1

\* -------------------------------------------------- Computer Opponent Policy
corners == {0, 2, 6, 8}

\* makeComputerMove with the block tried before the win
makeComputerMoveChoicesBlockFirst(sq) ==
  IF calculateWinner(sq) # null \/ (\A i \in Cells : sq[i] # null) THEN {}
  ELSE IF findWinningMove(sq, X) # -1 THEN {findWinningMove(sq, X)}
  ELSE IF findWinningMove(sq, O) # -1 THEN {findWinningMove(sq, O)}
  ELSE IF sq[4] = null THEN {4}
  ELSE IF {i \in corners : sq[i] = null} # {} THEN {i \in corners : sq[i] = null}
  ELSE {i \in Cells : sq[i] = null}

\* makeComputerMove trying the corners before the centre
makeComputerMoveChoicesCornerFirst(sq) ==
  IF calculateWinner(sq) # null \/ (\A i \in Cells : sq[i] # null) THEN {}
  ELSE IF findWinningMove(sq, O) # -1 THEN {findWinningMove(sq, O)}
  ELSE IF findWinningMove(sq, X) # -1 THEN {findWinningMove(sq, X)}
  ELSE IF {i \in corners : sq[i] = null} # {} THEN {i \in corners : sq[i] = null}
  ELSE IF sq[4] = null THEN {4}
  ELSE {i \in Cells : sq[i] = null}

\* makeComputerMove without the blocking step
makeComputerMoveChoicesNoBlock(sq) ==
  IF calculateWinner(sq) # null \/ (\A i \in Cells : sq[i] # null) THEN {}
  ELSE IF findWinningMove(sq, O) # -1 THEN {findWinningMove(sq, O)}
  ELSE IF sq[4] = null THEN {4}
  ELSE IF {i \in corners : sq[i] = null} # {} THEN {i \in corners : sq[i] = null}
  ELSE {i \in Cells : sq[i] = null}

\* the cells makeComputerMove may pass to handleSquareClick; the set is empty
\* when it returns without a move and has several cells where the code draws
\* one with Math.random
makeComputerMoveChoices(sq) ==
  IF calculateWinner(sq) # null \/ (\A i \in Cells : sq[i] # null) THEN {}
  ELSE IF findWinningMove(sq, O) # -1 THEN {findWinningMove(sq, O)}
  ELSE IF findWinningMove(sq, X) # -1 THEN {findWinningMove(sq, X)}
  ELSE IF sq[4] = null THEN {4}
  ELSE IF {i \in corners : sq[i] = null} # {} THEN {i \in corners : sq[i] = null}
  ELSE {i \in Cells : sq[i] = null}

\* ------------------------------------------------------------------- state
VARIABLES
  squares,            \* the live Board
  isXNext,            \* turn flag of the local modes
  winner,             \* the stored Outcome: null, X, O or draw
  history,            \* sequence of [squares, currentPlayer]
  currentMove,        \* the Current Move Pointer (0-based index into history)
  gameMode,           \* "local", "computer" or "online"
  roomCode,
  isHost,
  playerSymbol,
  opponentConnected,
  isMyTurn,
  simulatedGames,     \* the Room registry: room code -> SimulatedGame
  dirty,              \* effects whose dependencies changed in the last commit
  computerTimer,      \* the pending 600ms timer of the computer effect: {} or {closure}
  simulatedOpponentTimer, \* the pending timer of simulatedOpponentTimerRef: {} or {closure}
  joinTimers,         \* pending 3000ms simulated-join timers, oldest first
  last                \* the last handler or callback that ran, and what it notified

vars == <<squares, isXNext, winner, history, currentMove, gameMode, roomCode,
          isHost, playerSymbol, opponentConnected, isMyTurn, simulatedGames,
          dirty, computerTimer, simulatedOpponentTimer, joinTimers, last>>

\* useSimulatedMode starts true and every setUseSimulatedMode call sets it to
\* true, so the WebSocket branches are never taken
useSimulatedMode == TRUE

\* the state a render shows and the closures of that render capture
Render ==
  [squares |-> squares, isXNext |-> isXNext, winner |-> winner,
   history |-> history, currentMove |-> currentMove, gameMode |-> gameMode,
   roomCode |-> roomCode, isHost |-> isHost, playerSymbol |-> playerSymbol,
   opponentConnected |-> opponentConnected, isMyTurn |-> isMyTurn,
   simulatedGames |-> simulatedGames]

\* state that holds arrays or objects: setting one always changes its identity
ObjectFields == {"squares", "history"}

\* isSoundEnabled only gates the playback of the sounds, which the model
\* leaves out: the model keeps that toggleSound changes it, not its value
ToggledFields == {"isSoundEnabled"}

deps ==
  [computerMove      |-> {"isXNext", "winner", "gameMode"},
   calculateWinner   |-> {"squares", "isSoundEnabled", "gameMode", "roomCode",
                          "simulatedGames"},
   simulatedOpponent |-> {"gameMode", "roomCode", "simulatedGames", "isMyTurn",
                          "winner", "opponentConnected", "history", "currentMove"},
   roomInit          |-> {"roomCode", "gameMode", "isHost", "history", "playerSymbol"},
   stateSync         |-> {"gameMode", "roomCode", "simulatedGames", "playerSymbol",
                          "squares", "winner"}]

Effects == DOMAIN deps

\* ------------------------------------------------------- queued state updates
\* An update u is a record holding the fields a handler set, and u.puts, the
\* sequence of <<room code, game>> written through
\* setSimulatedGames(prev => ({...prev, [id]: game})).
Get(u, f, cur) == IF f \in DOMAIN u THEN u[f] ELSE cur

RECURSIVE applyPuts(_, _)
applyPuts(games, puts) ==
  IF puts = <<>> THEN games
  ELSE applyPuts((puts[1][1] :> puts[1][2]) @@ games, Tail(puts))

\* the state names whose identity or value the update changes
changed(u, same) ==
  {f \in DOMAIN u \ {"puts"} :
     IF f \in ObjectFields \cup ToggledFields THEN f \notin same
     ELSE u[f] # Render[f]}
  \cup (IF u.puts # <<>> THEN {"simulatedGames"} ELSE {})

Commit(u, same) ==
  /\ squares' = Get(u, "squares", squares)
  /\ isXNext' = Get(u, "isXNext", isXNext)
  /\ winner' = Get(u, "winner", winner)
  /\ history' = Get(u, "history", history)
  /\ currentMove' = Get(u, "currentMove", currentMove)
  /\ gameMode' = Get(u, "gameMode", gameMode)
  /\ roomCode' = Get(u, "roomCode", roomCode)
  /\ isHost' = Get(u, "isHost", isHost)
  /\ playerSymbol' = Get(u, "playerSymbol", playerSymbol)
  /\ opponentConnected' = Get(u, "opponentConnected", opponentConnected)
  /\ isMyTurn' = Get(u, "isMyTurn", isMyTurn)
  /\ simulatedGames' = applyPuts(simulatedGames, u.puts)
  /\ dirty' = {e \in Effects : deps[e] \cap changed(u, same) # {}}

noUpdate == [puts |-> <<>>]

\* ------------------------------------------------ simulated online functions
updateSimulatedGame(gameId, updatedGame) == << <<gameId, updatedGame>> >>

\* the closure of a simulated-join timer: the room it joins and what the
\* registry of the scheduling render held for that room
joinClosure(c, gameId) ==
  [gameId |-> gameId,
   simulatedGames |-> [k \in DOMAIN c.simulatedGames \cap {gameId} |-> c.simulatedGames[k]]]

initializeSimulatedGame(c, gameId) ==
  [u |-> [puts |-> << <<gameId, newGame(null)>> >>, opponentConnected |-> FALSE],
   timers |-> <<joinClosure(c, gameId)>>]

\* joinSimulatedGame creating the Room of an unknown code without a joiner
joinSimulatedGameEmptySlot(games, gameId, isSimulated) ==
  [u |-> [puts |->
            IF ~isSimulated /\ gameId \notin DOMAIN games
              THEN << <<gameId, newGame(null)>> >>
            ELSE IF gameId \in DOMAIN games
              THEN updateSimulatedGame(gameId,
                     [games[gameId] EXCEPT
                        !.playerO = IF isSimulated THEN "simulated" ELSE "guest"])
            ELSE << <<gameId, newGame(IF isSimulated THEN "simulated" ELSE "guest")>> >>,
          opponentConnected |-> TRUE],
   toasts |-> IF isSimulated THEN {"Opponent connected!"} ELSE {"Joined game"}]

joinSimulatedGame(games, gameId, isSimulated) ==
  [u |-> [puts |->
            IF ~isSimulated /\ gameId \notin DOMAIN games
              THEN << <<gameId, newGame("guest")>> >>
            ELSE IF gameId \in DOMAIN games
              THEN updateSimulatedGame(gameId,
                     [games[gameId] EXCEPT
                        !.playerO = IF isSimulated THEN "simulated" ELSE "guest"])
            ELSE << <<gameId, newGame(IF isSimulated THEN "simulated" ELSE "guest")>> >>,
          opponentConnected |-> TRUE],
   toasts |-> IF isSimulated THEN {"Opponent connected!"} ELSE {"Joined game"}]

\* ------------------------------------------------------------- the handlers
\* Each handler is an operator over the closure c it runs in; it yields the
\* updates it queues (u), whether it went past its early returns (ok) and the
\* toasts it shows.
rejected(toasts) == [ok |-> FALSE, u |-> noUpdate, toasts |-> toasts, dropped |-> 0]

\* a mover's mark that ignores the turn flag
moverMarkAlwaysX(c) == IF c.gameMode = "online" THEN c.playerSymbol ELSE X

\* the mark handleSquareClick places
moverMark(c) ==
  IF c.gameMode = "online" THEN c.playerSymbol
  ELSE IF c.isXNext THEN X ELSE O

\* a history update that never discards entries
keptHistoryAll(c) == c.history

\* history.slice(0, currentMove + 1)
keptHistory(c) == SubSeq(c.history, 1, Min({c.currentMove + 1, Len(c.history)}))

\* placeMark advancing the pointer by one instead of setting it to the last
\* index of the new History
placeMarkPointerPlusOne(c, i) ==
  LET newSquares == [c.squares EXCEPT ![i] = moverMark(c)]
      kept == keptHistory(c)
      newHistory ==
        Append(kept, [squares |-> newSquares,
                      currentPlayer |-> IF c.isXNext THEN X ELSE O])
      turn ==
        IF c.gameMode # "online"
          THEN [isXNext |-> ~c.isXNext, puts |-> <<>>]
          ELSE [isMyTurn |-> FALSE,
                puts |->
                  IF useSimulatedMode /\ c.roomCode # NoCode
                     /\ c.roomCode \in DOMAIN c.simulatedGames
                    THEN updateSimulatedGame(c.roomCode,
                           [c.simulatedGames[c.roomCode] EXCEPT
                              !.squares = newSquares,
                              !.isXNext = ~c.simulatedGames[c.roomCode].isXNext])
                    ELSE <<>>]
  IN  [ok |-> TRUE, toasts |-> {}, dropped |-> Len(c.history) - Len(kept),
       u |-> [squares |-> newSquares, history |-> newHistory,
              currentMove |-> c.currentMove + 1] @@ turn]

\* the part of handleSquareClick after its early returns
placeMark(c, i) ==
  LET newSquares == [c.squares EXCEPT ![i] = moverMark(c)]
      kept == keptHistory(c)
      newHistory ==
        Append(kept, [squares |-> newSquares,
                      currentPlayer |-> IF c.isXNext THEN X ELSE O])
      turn ==
        IF c.gameMode # "online"
          THEN [isXNext |-> ~c.isXNext, puts |-> <<>>]
          ELSE [isMyTurn |-> FALSE,
                puts |->
                  IF useSimulatedMode /\ c.roomCode # NoCode
                     /\ c.roomCode \in DOMAIN c.simulatedGames
                    THEN updateSimulatedGame(c.roomCode,
                           [c.simulatedGames[c.roomCode] EXCEPT
                              !.squares = newSquares,
                              !.isXNext = ~c.simulatedGames[c.roomCode].isXNext])
                    ELSE <<>>]
  IN  [ok |-> TRUE, toasts |-> {}, dropped |-> Len(c.history) - Len(kept),
       u |-> [squares |-> newSquares, history |-> newHistory,
              currentMove |-> Len(newHistory) - 1] @@ turn]

\* handleSquareClick without the check of the target cell
handleSquareClickAnyCell(c, i) ==
  IF c.winner # null THEN rejected({})
  ELSE IF c.gameMode = "online" /\ ~c.isMyTurn THEN rejected({"Not your turn"})
  ELSE IF c.gameMode = "online" /\ ~c.opponentConnected
    THEN rejected({"Waiting for opponent"})
  ELSE IF c.gameMode = "computer" /\ ~c.isXNext THEN rejected({})
  ELSE placeMark(c, i)

\* handleSquareClick without the check of the stored Outcome
handleSquareClickAfterGameOver(c, i) ==
  IF c.squares[i] # null THEN rejected({})
  ELSE IF c.gameMode = "online" /\ ~c.isMyTurn THEN rejected({"Not your turn"})
  ELSE IF c.gameMode = "online" /\ ~c.opponentConnected
    THEN rejected({"Waiting for opponent"})
  ELSE IF c.gameMode = "computer" /\ ~c.isXNext THEN rejected({})
  ELSE placeMark(c, i)

handleSquareClick(c, i) ==
  IF c.winner # null \/ c.squares[i] # null THEN rejected({})
  ELSE IF c.gameMode = "online" /\ ~c.isMyTurn THEN rejected({"Not your turn"})
  ELSE IF c.gameMode = "online" /\ ~c.opponentConnected
    THEN rejected({"Waiting for opponent"})
  ELSE IF c.gameMode = "computer" /\ ~c.isXNext THEN rejected({})
  ELSE placeMark(c, i)

\* jumpToMove moving the pointer also when the index is out of range
jumpToMoveAnyIndex(c, move) ==
  IF move < 0 \/ move >= Len(c.history)
    THEN [ok |-> FALSE, toasts |-> {}, dropped |-> 0,
          u |-> [currentMove |-> move, puts |-> <<>>], same |-> {}]
  ELSE IF c.gameMode = "online" THEN rejected({"Not available"}) @@ [same |-> {}]
  ELSE [ok |-> TRUE, toasts |-> {},
        u |-> [currentMove |-> move,
               squares |-> c.history[move + 1].squares,
               isXNext |-> (c.history[move + 1].currentPlayer = O),
               winner |-> calculateWinner(c.history[move + 1].squares),
               puts |-> <<>>],
        same |-> IF c.squares = c.history[move + 1].squares THEN {"squares"} ELSE {}]

\* jumpToMove handing the turn to the player the entry stores
jumpToMoveTurnOfStoredPlayer(c, move) ==
  IF move < 0 \/ move >= Len(c.history) THEN rejected({}) @@ [same |-> {}]
  ELSE IF c.gameMode = "online" THEN rejected({"Not available"}) @@ [same |-> {}]
  ELSE [ok |-> TRUE, toasts |-> {},
        u |-> [currentMove |-> move,
               squares |-> c.history[move + 1].squares,
               isXNext |-> (c.history[move + 1].currentPlayer = X),
               winner |-> calculateWinner(c.history[move + 1].squares),
               puts |-> <<>>],
        same |-> IF c.squares = c.history[move + 1].squares THEN {"squares"} ELSE {}]

\* jumpToMove cutting History at the entry it jumps to
jumpToMoveTruncates(c, move) ==
  IF move < 0 \/ move >= Len(c.history) THEN rejected({}) @@ [same |-> {}]
  ELSE IF c.gameMode = "online" THEN rejected({"Not available"}) @@ [same |-> {}]
  ELSE [ok |-> TRUE, toasts |-> {},
        u |-> [currentMove |-> move,
               squares |-> c.history[move + 1].squares,
               history |-> SubSeq(c.history, 1, move + 1),
               isXNext |-> (c.history[move + 1].currentPlayer = O),
               winner |-> calculateWinner(c.history[move + 1].squares),
               puts |-> <<>>],
        same |-> IF c.squares = c.history[move + 1].squares THEN {"squares"} ELSE {}]

\* jumpToMove without setSquares
jumpToMoveKeepsBoard(c, move) ==
  IF move < 0 \/ move >= Len(c.history) THEN rejected({}) @@ [same |-> {}]
  ELSE IF c.gameMode = "online" THEN rejected({"Not available"}) @@ [same |-> {}]
  ELSE [ok |-> TRUE, toasts |-> {},
        u |-> [currentMove |-> move,
               isXNext |-> (c.history[move + 1].currentPlayer = O),
               winner |-> calculateWinner(c.history[move + 1].squares),
               puts |-> <<>>],
        same |-> {}]

\* same: setSquares(history[move].squares) sets the array object the Board
\* already is when the Board already shows that entry
jumpToMove(c, move) ==
  IF move < 0 \/ move >= Len(c.history) THEN rejected({}) @@ [same |-> {}]
  ELSE IF c.gameMode = "online" THEN rejected({"Not available"}) @@ [same |-> {}]
  ELSE [ok |-> TRUE, toasts |-> {},
        u |-> [currentMove |-> move,
               squares |-> c.history[move + 1].squares,
               isXNext |-> (c.history[move + 1].currentPlayer = O),
               winner |-> calculateWinner(c.history[move + 1].squares),
               puts |-> <<>>],
        same |-> IF c.squares = c.history[move + 1].squares THEN {"squares"} ELSE {}]

resetGame(c) ==
  LET online ==
        IF c.gameMode = "online"
          THEN [isMyTurn |-> (c.playerSymbol = X),
                puts |->
                  IF useSimulatedMode /\ c.roomCode # NoCode
                     /\ c.roomCode \in DOMAIN c.simulatedGames
                    THEN updateSimulatedGame(c.roomCode,
                           [c.simulatedGames[c.roomCode] EXCEPT
                              !.squares = emptySquares, !.isXNext = TRUE,
                              !.winner = null])
                    ELSE <<>>]
          ELSE [puts |-> <<>>]
  IN  [ok |-> TRUE, toasts |-> {"Game reset"},
       u |-> [squares |-> emptySquares, isXNext |-> TRUE, winner |-> null,
              history |-> <<>>, currentMove |-> 0] @@ online]

setMode(c, mode) ==
  IF mode = c.gameMode THEN rejected({})
  ELSE [ok |-> TRUE, toasts |-> resetGame(c).toasts,
        u |-> (IF mode = "online" THEN [gameMode |-> mode]
               ELSE [gameMode |-> mode, roomCode |-> NoCode,
                     opponentConnected |-> FALSE])
              @@ resetGame(c).u]

createRoom(c, newRoomCode) ==
  LET init == initializeSimulatedGame(c, newRoomCode)
  IN  [ok |-> TRUE, toasts |-> {"Room created"},
       u |-> [roomCode |-> newRoomCode, isHost |-> TRUE, playerSymbol |-> X]
             @@ (IF useSimulatedMode THEN init.u ELSE noUpdate),
       timers |-> IF useSimulatedMode THEN init.timers ELSE <<>>]

joinRoom(c, joinRoomCode) ==
  IF joinRoomCode = NoCode THEN rejected({"Enter a room code"})
  ELSE LET join == joinSimulatedGame(c.simulatedGames, joinRoomCode, FALSE)
       IN  [ok |-> TRUE, toasts |-> IF useSimulatedMode THEN join.toasts ELSE {},
            u |-> [roomCode |-> joinRoomCode, isHost |-> FALSE, playerSymbol |-> O]
                  @@ (IF useSimulatedMode THEN join.u ELSE noUpdate)]

toggleSound(c) ==
  [ok |-> TRUE, toasts |-> {}, u |-> [isSoundEnabled |-> "toggled", puts |-> <<>>]]

\* makeComputerMove in the closure c: it passes cell i to handleSquareClick
makeComputerMove(c, i) == handleSquareClick(c, i)

\* -------------------------------------------------------------- the effects
\* the "Computer move" effect scheduling its timer on either player's turn
computerMoveEffectAnyTurn(c) ==
  IF c.gameMode = "computer" /\ c.winner = null
    THEN {[f \in {"squares", "isXNext", "winner", "history", "currentMove",
                  "gameMode"} |-> c[f]]}
    ELSE {}

\* "Computer move" effect: the timer it schedules, if any
\* (the closure holds the state makeComputerMove and handleSquareClick read
\* in computer mode)
computerMoveEffect(c) ==
  IF c.gameMode = "computer" /\ ~c.isXNext /\ c.winner = null
    THEN {[f \in {"squares", "isXNext", "winner", "history", "currentMove",
                  "gameMode"} |-> c[f]]}
    ELSE {}

\* "Calculate winner" effect
calculateWinnerEffect(c) ==
  LET calculatedWinner == calculateWinner(c.squares)
  IN  [u |-> [winner |-> calculatedWinner,
              puts |->
                IF /\ calculatedWinner # null
                   /\ c.gameMode = "online" /\ useSimulatedMode
                   /\ c.roomCode # NoCode
                   /\ c.roomCode \in DOMAIN c.simulatedGames
                  THEN updateSimulatedGame(c.roomCode,
                         [c.simulatedGames[c.roomCode] EXCEPT
                            !.winner = calculatedWinner])
                  ELSE <<>>],
       toasts |-> IF calculatedWinner = null THEN {}
                  ELSE IF calculatedWinner = draw THEN {"It's a draw!"}
                  ELSE {"Player wins!"}]

\* the "Simulated online opponent" effect without the check of the Outcome
simulatedOpponentEffectAnyOutcome(c) ==
  IF /\ c.gameMode = "online" /\ useSimulatedMode
     /\ c.roomCode # NoCode
     /\ c.roomCode \in DOMAIN c.simulatedGames
     /\ ~c.isMyTurn /\ c.opponentConnected
    THEN {[roomCode |-> c.roomCode, game |-> c.simulatedGames[c.roomCode],
           history |-> c.history, currentMove |-> c.currentMove]}
    ELSE {}

\* "Simulated online opponent" effect: the timer it schedules, if any, with
\* what the callback reads from its closure
simulatedOpponentEffect(c) ==
  IF /\ c.gameMode = "online" /\ useSimulatedMode
     /\ c.roomCode # NoCode
     /\ c.roomCode \in DOMAIN c.simulatedGames
     /\ ~c.isMyTurn /\ c.winner = null /\ c.opponentConnected
    THEN {[roomCode |-> c.roomCode, game |-> c.simulatedGames[c.roomCode],
           history |-> c.history, currentMove |-> c.currentMove]}
    ELSE {}

\* the simulated opponent always placing O
simulatedOpponentMoveAlwaysO(t, moveIndex) ==
  LET game == t.game
      newSquares == [game.squares EXCEPT ![moveIndex] = O]
      newHistory ==
        Append(SubSeq(t.history, 1, Min({t.currentMove + 1, Len(t.history)})),
               [squares |-> newSquares,
                currentPlayer |-> IF game.isXNext THEN X ELSE O])
  IN  [puts |-> updateSimulatedGame(t.roomCode,
                  [game EXCEPT !.squares = newSquares, !.isXNext = ~game.isXNext]),
       squares |-> newSquares, isXNext |-> ~game.isXNext, isMyTurn |-> TRUE,
       history |-> newHistory, currentMove |-> Len(newHistory) - 1]

\* the callback of the simulated opponent's timer, placing its mark on moveIndex
simulatedOpponentMove(t, moveIndex) ==
  LET game == t.game
      newSquares == [game.squares EXCEPT ![moveIndex] = IF game.isXNext THEN X ELSE O]
      newHistory ==
        Append(SubSeq(t.history, 1, Min({t.currentMove + 1, Len(t.history)})),
               [squares |-> newSquares,
                currentPlayer |-> IF game.isXNext THEN X ELSE O])
  IN  [puts |-> updateSimulatedGame(t.roomCode,
                  [game EXCEPT !.squares = newSquares, !.isXNext = ~game.isXNext]),
       squares |-> newSquares, isXNext |-> ~game.isXNext, isMyTurn |-> TRUE,
       history |-> newHistory, currentMove |-> Len(newHistory) - 1]

\* the simulated branch of the "WebSocket connection" effect
roomInitEffect(c) ==
  IF c.gameMode = "online" /\ c.roomCode # NoCode /\ useSimulatedMode
    THEN IF c.isHost
           THEN initializeSimulatedGame(c, c.roomCode) @@ [toasts |-> {}]
           ELSE joinSimulatedGame(c.simulatedGames, c.roomCode, FALSE)
                @@ [timers |-> <<>>]
    ELSE [u |-> noUpdate, timers |-> <<>>, toasts |-> {}]

\* the "Simulated game state sync" effect without the sync of the turn
stateSyncEffectBoardOnly(c) ==
  IF /\ c.gameMode = "online" /\ useSimulatedMode
     /\ c.roomCode # NoCode
     /\ c.roomCode \in DOMAIN c.simulatedGames
    THEN LET game == c.simulatedGames[c.roomCode]
         IN  (IF game.winner # null /\ game.winner # c.winner
                THEN [winner |-> game.winner] ELSE noUpdate)
             @@ (IF c.squares # game.squares
                   THEN [squares |-> game.squares] ELSE noUpdate)
             @@ [puts |-> <<>>]
    ELSE noUpdate

\* the "Simulated game state sync" effect without the sync of the Board
stateSyncEffectTurnOnly(c) ==
  IF /\ c.gameMode = "online" /\ useSimulatedMode
     /\ c.roomCode # NoCode
     /\ c.roomCode \in DOMAIN c.simulatedGames
    THEN LET game == c.simulatedGames[c.roomCode]
         IN  (IF game.winner # null /\ game.winner # c.winner
                THEN [winner |-> game.winner] ELSE noUpdate)
             @@ [isMyTurn |->
                   ~(\/ c.playerSymbol = X /\ ~game.isXNext
                     \/ c.playerSymbol = O /\ game.isXNext),
                 puts |-> <<>>]
    ELSE noUpdate

\* "Simulated game state sync" effect
stateSyncEffect(c) ==
  IF /\ c.gameMode = "online" /\ useSimulatedMode
     /\ c.roomCode # NoCode
     /\ c.roomCode \in DOMAIN c.simulatedGames
    THEN LET game == c.simulatedGames[c.roomCode]
         IN  (IF game.winner # null /\ game.winner # c.winner
                THEN [winner |-> game.winner] ELSE noUpdate)
             @@ (IF c.squares # game.squares
                   THEN [squares |-> game.squares] ELSE noUpdate)
             @@ [isMyTurn |->
                   ~(\/ c.playerSymbol = X /\ ~game.isXNext
                     \/ c.playerSymbol = O /\ game.isXNext),
                 puts |-> <<>>]
    ELSE noUpdate

\* the updates of one pass of the pending effects D over the render c, in the
\* order of the effects in the source; a later setter of a state wins
effectsUpdate(c, D) ==
  LET w == IF "calculateWinner" \in D THEN calculateWinnerEffect(c).u ELSE noUpdate
      r == IF "roomInit" \in D THEN roomInitEffect(c).u ELSE noUpdate
      y == IF "stateSync" \in D THEN stateSyncEffect(c) ELSE noUpdate
  IN  [puts |-> w.puts \o r.puts] @@ y @@ r @@ w

effectsToasts(c, D) ==
  (IF "calculateWinner" \in D THEN calculateWinnerEffect(c).toasts ELSE {})
  \cup (IF "roomInit" \in D THEN roomInitEffect(c).toasts ELSE {})

\* ------------------------------------------------------------------ actions
Init ==
  /\ squares = emptySquares
  /\ isXNext = TRUE
  /\ winner = null
  /\ history = <<>>
  /\ currentMove = 0
  /\ gameMode = "computer"
  /\ roomCode = NoCode
  /\ isHost = FALSE
  /\ playerSymbol = X
  /\ opponentConnected = FALSE
  /\ isMyTurn = TRUE
  /\ simulatedGames = noGames
  /\ dirty = {}
  /\ computerTimer = {}
  /\ simulatedOpponentTimer = {}
  /\ joinTimers = <<>>
  /\ last = [op |-> "mount", arg |-> 0, ok |-> TRUE, toasts |-> {},
             prevJump |-> -1, dropped |-> 0]

\* no effect is pending: the render is the one handlers and timers act on
Settled == dirty = {}

\* the number of simulated-join timers the effects will schedule once u is
\* committed (the room initialisation re-runs for a host)
willSchedule(u, same) ==
  IF /\ deps["roomInit"] \cap changed(u, same) # {}
     /\ Get(u, "gameMode", gameMode) = "online"
     /\ Get(u, "roomCode", roomCode) # NoCode
     /\ Get(u, "isHost", isHost)
    THEN 1 ELSE 0

\* no Room was created yet and the session is not online
NoRoomYet == DOMAIN simulatedGames = {} /\ joinTimers = <<>> /\ gameMode # "online"

\* the cells clicks and random draws fall on
ClickCells == IF NoRoomYet THEN 0..MaxCell ELSE RoomCells

\* the bounds on History and on the pending join timers
withinBounds(u, same, scheduled) ==
  /\ Len(Get(u, "history", history)) <= IF NoRoomYet THEN MaxHist ELSE MaxRoomHist
  /\ Len(joinTimers) + scheduled + willSchedule(u, same) <= MaxJoinTimers

\* what last records: the handler, its argument, whether it went past its
\* early returns, its toasts, for an accepted click the index of the
\* jumpToMove that ran just before it (else -1) and the number of History
\* entries it discarded
ran(op, arg, r) ==
  [op |-> op, arg |-> arg, ok |-> r.ok, toasts |-> r.toasts,
   prevJump |-> IF /\ op = "handleSquareClick" /\ r.ok
                   /\ last.op = "jumpToMove" /\ last.ok
                THEN last.arg ELSE -1,
   dropped |-> IF "dropped" \in DOMAIN r THEN r.dropped ELSE 0]

\* submitMove(i): a click on square i; the online tab shows the board once
\* there is a room code
HandleSquareClick(i) ==
  LET r == handleSquareClick(Render, i)
  IN  /\ Settled
      /\ gameMode = "online" => roomCode # NoCode
      /\ withinBounds(r.u, {}, 0)
      /\ Commit(r.u, {})
      /\ last' = ran("handleSquareClick", i, r)
      /\ UNCHANGED <<computerTimer, simulatedOpponentTimer, joinTimers>>

JumpToMove(move) ==
  LET r == jumpToMove(Render, move)
  IN  /\ Settled
      /\ Commit(r.u, r.same)
      /\ last' = ran("jumpToMove", move, r)
      /\ UNCHANGED <<computerTimer, simulatedOpponentTimer, joinTimers>>

ResetGame ==
  LET r == resetGame(Render)
  IN  /\ Settled
      /\ withinBounds(r.u, {}, 0)
      /\ Commit(r.u, {})
      /\ last' = ran("resetGame", 0, r)
      /\ UNCHANGED <<computerTimer, simulatedOpponentTimer, joinTimers>>

ToggleSound ==
  LET r == toggleSound(Render)
  IN  /\ Settled
      /\ Commit(r.u, {})
      /\ last' = ran("toggleSound", 0, r)
      /\ UNCHANGED <<computerTimer, simulatedOpponentTimer, joinTimers>>

\* setMode clears the timer of simulatedOpponentTimerRef before it resets
SetMode(mode) ==
  LET r == setMode(Render, mode)
  IN  /\ Settled
      /\ Commit(r.u, {})
      /\ simulatedOpponentTimer' = IF r.ok THEN {} ELSE simulatedOpponentTimer
      /\ last' = ran("setMode", 0, r)
      /\ UNCHANGED <<computerTimer, joinTimers>>

\* the lobby offers "Create New Game" and "Join Game" in the online tab while
\* there is no room code
CreateRoom(newRoomCode) ==
  LET r == createRoom(Render, newRoomCode)
  IN  /\ Settled
      /\ gameMode = "online" /\ roomCode = NoCode
      /\ withinBounds(r.u, {}, Len(r.timers))
      /\ Commit(r.u, {})
      /\ joinTimers' = joinTimers \o r.timers
      /\ last' = ran("createRoom", newRoomCode, r)
      /\ UNCHANGED <<computerTimer, simulatedOpponentTimer>>

JoinRoom(joinRoomCode) ==
  LET r == joinRoom(Render, joinRoomCode)
  IN  /\ Settled
      /\ gameMode = "online" /\ roomCode = NoCode
      /\ Commit(r.u, {})
      /\ last' = ran("joinRoom", joinRoomCode, r)
      /\ UNCHANGED <<computerTimer, simulatedOpponentTimer, joinTimers>>

\* the 600ms timer of the computer effect fires
ComputerTimerFires ==
  /\ Settled
  /\ computerTimer # {}
  /\ LET c == CHOOSE t \in computerTimer : TRUE
         choices == makeComputerMoveChoices(c.squares)
     IN  IF choices = {}
           THEN /\ Commit(noUpdate, {})
                /\ last' = ran("makeComputerMove", -1, rejected({}))
           ELSE \E i \in choices :
                  LET r == makeComputerMove(c, i)
                  IN  /\ withinBounds(r.u, {}, 0)
                      /\ Commit(r.u, {})
                      /\ last' = ran("makeComputerMove", i, r)
  /\ computerTimer' = {}
  /\ UNCHANGED <<simulatedOpponentTimer, joinTimers>>

\* the 1-2s timer of the simulated opponent fires
SimulatedOpponentTimerFires ==
  /\ Settled
  /\ simulatedOpponentTimer # {}
  /\ LET t == CHOOSE x \in simulatedOpponentTimer : TRUE
         availableMoves == {i \in Cells : t.game.squares[i] = null}
     IN  IF t.game.winner # null \/ availableMoves = {}
           THEN /\ Commit(noUpdate, {})
                /\ last' = ran("simulatedOpponent", -1, rejected({}))
           ELSE \E moveIndex \in availableMoves \cap ClickCells :
                  LET u == simulatedOpponentMove(t, moveIndex)
                  IN  /\ withinBounds(u, {}, 0)
                      /\ Commit(u, {})
                      /\ last' = ran("simulatedOpponent", moveIndex,
                                     [ok |-> TRUE, toasts |-> {}])
  /\ simulatedOpponentTimer' = {}
  /\ UNCHANGED <<computerTimer, joinTimers>>

\* the oldest 3s simulated-join timer fires
JoinTimerFires ==
  /\ Settled
  /\ joinTimers # <<>>
  /\ LET t == Head(joinTimers)
         r == joinSimulatedGame(t.simulatedGames, t.gameId, TRUE)
     IN  /\ Commit(r.u, {})
         /\ last' = ran("joinSimulatedGame", t.gameId, [ok |-> TRUE, toasts |-> r.toasts])
  /\ joinTimers' = Tail(joinTimers)
  /\ UNCHANGED <<computerTimer, simulatedOpponentTimer>>

\* one pass of the pending effects: cleanups of the previous run, then the
\* bodies, all against the current render
RunEffects ==
  /\ ~Settled
  /\ Commit(effectsUpdate(Render, dirty), {})
  /\ computerTimer' =
       IF "computerMove" \in dirty THEN computerMoveEffect(Render) ELSE computerTimer
  /\ simulatedOpponentTimer' =
       IF "simulatedOpponent" \in dirty THEN simulatedOpponentEffect(Render)
       ELSE simulatedOpponentTimer
  /\ joinTimers' =
       IF "roomInit" \in dirty THEN joinTimers \o roomInitEffect(Render).timers
       ELSE joinTimers
  /\ last' = [last EXCEPT !.toasts = effectsToasts(Render, dirty)]

Next ==
  \/ \E i \in ClickCells : HandleSquareClick(i)
  \/ \E move \in -1..Len(history) : JumpToMove(move)
  \/ ResetGame
  \/ ToggleSound
  \/ \E mode \in {"local", "computer", "online"} : SetMode(mode)
  \/ \E code \in Codes : CreateRoom(code)
  \/ \E code \in Codes \cup {NoCode} : JoinRoom(code)
  \/ ComputerTimerFires
  \/ SimulatedOpponentTimerFires
  \/ JoinTimerFires
  \/ RunEffects

Spec == Init /\ [][Next]_vars

\* React runs the pending effects after every commit and the browser runs a
\* timer's callback once its delay has passed
SpecFair == Spec /\ WF_vars(RunEffects) /\ WF_vars(JoinTimerFires)

\* ---------------------------------------- the evaluator and the policy alone
\* The computer is to move on an arbitrary board: the effects are pending, the
\* winner effect evaluates the board and the computer's timer runs
\* makeComputerMove on it.
InitPolicy ==
  /\ squares \in AllBoards
  /\ isXNext = FALSE
  /\ winner = null
  /\ history = <<>>
  /\ currentMove = 0
  /\ gameMode = "computer"
  /\ roomCode = NoCode
  /\ isHost = FALSE
  /\ playerSymbol = X
  /\ opponentConnected = FALSE
  /\ isMyTurn = TRUE
  /\ simulatedGames = noGames
  /\ dirty = {"computerMove", "calculateWinner"}
  /\ computerTimer = {}
  /\ simulatedOpponentTimer = {}
  /\ joinTimers = <<>>
  /\ last = [op |-> "mount", arg |-> 0, ok |-> TRUE, toasts |-> {},
             prevJump |-> -1, dropped |-> 0]

NextPolicy ==
  \/ RunEffects
  \/ ComputerTimerFires

SpecPolicy == InitPolicy /\ [][NextPolicy]_vars

\* ------------------------------------------------------- local play alone
\* A session in Local mode that stays in Local mode: the state after
\* setMode("local") and its effects, then clicks, jumps and resets.
InitLocal ==
  /\ squares = emptySquares
  /\ isXNext = TRUE
  /\ winner = null
  /\ history = <<>>
  /\ currentMove = 0
  /\ gameMode = "local"
  /\ roomCode = NoCode
  /\ isHost = FALSE
  /\ playerSymbol = X
  /\ opponentConnected = FALSE
  /\ isMyTurn = TRUE
  /\ simulatedGames = noGames
  /\ dirty = {}
  /\ computerTimer = {}
  /\ simulatedOpponentTimer = {}
  /\ joinTimers = <<>>
  /\ last = [op |-> "setMode", arg |-> 0, ok |-> TRUE, toasts |-> {},
             prevJump |-> -1, dropped |-> 0]

LocalClick(i) ==
  LET r == handleSquareClick(Render, i)
  IN  /\ Settled
      /\ Commit(r.u, {})
      /\ last' = ran("handleSquareClick", i, r)
      /\ UNCHANGED <<computerTimer, simulatedOpponentTimer, joinTimers>>

LocalReset ==
  LET r == resetGame(Render)
  IN  /\ Settled
      /\ Commit(r.u, {})
      /\ last' = ran("resetGame", 0, r)
      /\ UNCHANGED <<computerTimer, simulatedOpponentTimer, joinTimers>>

NextLocal ==
  \/ \E i \in 0..MaxLocalCell : LocalClick(i)
  \/ \E move \in 0..(Len(history) - 1) : JumpToMove(move)
  \/ LocalReset
  \/ RunEffects

SpecLocal == InitLocal /\ [][NextLocal]_vars

\* ------------------------------------------------------ online play alone
\* A session in Online mode that stays online: the state after
\* setMode("online") and its effects, then createRoom or joinRoom, clicks and
\* the timers.
MaxOnlineCell == 4
MaxOnlineHist == 5

InitOnline ==
  /\ squares = emptySquares
  /\ isXNext = TRUE
  /\ winner = null
  /\ history = <<>>
  /\ currentMove = 0
  /\ gameMode = "online"
  /\ roomCode = NoCode
  /\ isHost = FALSE
  /\ playerSymbol = X
  /\ opponentConnected = FALSE
  /\ isMyTurn = TRUE
  /\ simulatedGames = noGames
  /\ dirty = {}
  /\ computerTimer = {}
  /\ simulatedOpponentTimer = {}
  /\ joinTimers = <<>>
  /\ last = [op |-> "setMode", arg |-> 0, ok |-> TRUE, toasts |-> {},
             prevJump |-> -1, dropped |-> 0]

OnlineClick(i) ==
  LET r == handleSquareClick(Render, i)
  IN  /\ Settled
      /\ roomCode # NoCode
      /\ Len(Get(r.u, "history", history)) <= MaxOnlineHist
      /\ Commit(r.u, {})
      /\ last' = ran("handleSquareClick", i, r)
      /\ UNCHANGED <<computerTimer, simulatedOpponentTimer, joinTimers>>

OnlineOpponentTimerFires ==
  /\ Settled
  /\ simulatedOpponentTimer # {}
  /\ LET t == CHOOSE x \in simulatedOpponentTimer : TRUE
         availableMoves == {i \in Cells : t.game.squares[i] = null}
     IN  IF t.game.winner # null \/ availableMoves = {}
           THEN /\ Commit(noUpdate, {})
                /\ last' = ran("simulatedOpponent", -1, rejected({}))
           ELSE \E moveIndex \in availableMoves \cap 0..MaxOnlineCell :
                  LET u == simulatedOpponentMove(t, moveIndex)
                  IN  /\ Len(u.history) <= MaxOnlineHist
                      /\ Commit(u, {})
                      /\ last' = ran("simulatedOpponent", moveIndex,
                                     [ok |-> TRUE, toasts |-> {}])
  /\ simulatedOpponentTimer' = {}
  /\ UNCHANGED <<computerTimer, joinTimers>>

NextOnline ==
  \/ \E code \in Codes : CreateRoom(code)
  \/ \E code \in Codes : JoinRoom(code)
  \/ \E i \in 0..MaxOnlineCell : OnlineClick(i)
  \/ OnlineOpponentTimerFires
  \/ JoinTimerFires
  \/ RunEffects

SpecOnline == InitOnline /\ [][NextOnline]_vars

\* ----------------------------------------------------- findWinningMove alone
\* findWinningMove is applied to an arbitrary board for either player; last
\* records the player it was given and the index it returned.
InitFind ==
  /\ squares \in AllBoards
  /\ isXNext = FALSE
  /\ winner = null
  /\ history = <<>>
  /\ currentMove = 0
  /\ gameMode = "computer"
  /\ roomCode = NoCode
  /\ isHost = FALSE
  /\ playerSymbol = X
  /\ opponentConnected = FALSE
  /\ isMyTurn = TRUE
  /\ simulatedGames = noGames
  /\ dirty = {}
  /\ computerTimer = {}
  /\ simulatedOpponentTimer = {}
  /\ joinTimers = <<>>
  /\ last = [op |-> "mount", arg |-> 0, ok |-> TRUE, toasts |-> {},
             prevJump |-> -1, dropped |-> 0]

FindWinningMove(player) ==
  /\ last.op = "mount"
  /\ last' = [op |-> "findWinningMove", arg |-> player, ok |-> TRUE,
              toasts |-> {}, prevJump |-> -1, dropped |-> 0,
              result |-> findWinningMove(squares, player)]
  /\ UNCHANGED <<squares, isXNext, winner, history, currentMove, gameMode,
                 roomCode, isHost, playerSymbol, opponentConnected, isMyTurn,
                 simulatedGames, dirty, computerTimer, simulatedOpponentTimer,
                 joinTimers>>

NextFind == \E player \in {X, O} : FindWinningMove(player)

SpecFind == InitFind /\ [][NextFind]_vars

\* ------------------------------------------------- one local game, played out
\* A session in Local mode in which only squares are clicked: no reset, no
\* jump, no mode change. Any of the 9 cells is clicked at any time; the first
\* click falls on one of the cells 0..MaxFirstCell.
MaxFirstCell == 0

NextGame ==
  \/ \E i \in (IF history = <<>> THEN 0..MaxFirstCell ELSE Cells) : LocalClick(i)
  \/ RunEffects

SpecGame == InitLocal /\ [][NextGame]_vars

\* ------------------------------------------------------------------ claims
\* the 8 lines of the grid: 3 rows, 3 columns, 2 diagonals
LineSets ==
  {{3 * r, 3 * r + 1, 3 * r + 2} : r \in 0..2}
  \cup {{k, k + 3, k + 6} : k \in 0..2}
  \cup {{0, 4, 8}, {2, 4, 6}}

HoldsLine(sq, p) == \E L \in LineSets : \A k \in L : sq[k] = p

Full(sq) == \A k \in Cells : sq[k] # null

\* the empty cells on which p completes a line
WinCells(sq, p) ==
  {i \in Cells : sq[i] = null /\ HoldsLine([sq EXCEPT ![i] = p], p)}

Count(sq, p) == Cardinality({k \in Cells : sq[k] = p})

BoardOf(xs, os) ==
  [k \in Cells |-> IF k \in xs THEN X ELSE IF k \in os THEN O ELSE null]

\* C1: in VsComputer mode the computer's delayed move places an O on the cell
\* the priority ladder chose and hands the turn back to X; after human X at 0
\* on the empty board that cell is 4.
C1_ComputerMovePlacesO ==
  (last.op = "makeComputerMove" /\ last.arg # -1) =>
     /\ squares[last.arg] = O
     /\ Count(squares, O) = Count(squares, X)
     /\ isXNext
     /\ (squares[0] = X /\ Count(squares, X) = 1 => squares[4] = O)

\* C2: on an InProgress, non-full board on which O has a winning cell,
\* makeComputerMove selects the lowest-index winning cell of O, whether or not
\* X has a winning cell too.
C2_WinFirst ==
  (last.op = "makeComputerMove" /\ WinCells(squares, O) # {}) =>
     last.arg = Min(WinCells(squares, O))

C2_Witness ==
  /\ last.op = "makeComputerMove"
  /\ Cardinality(WinCells(squares, O)) > 1
  /\ WinCells(squares, X) # {}
  /\ Min(WinCells(squares, X)) < Min(WinCells(squares, O))
  /\ last.arg = Min(WinCells(squares, O))

\* C3: on an InProgress, non-full board on which O has no winning cell and X
\* has one, makeComputerMove selects the lowest-index winning cell of X; on
\* [X,X,_,_,O,_,_,_,_] it selects 2.
C3_BlockSecond ==
  (last.op = "makeComputerMove" /\ WinCells(squares, O) = {}
     /\ WinCells(squares, X) # {}) =>
     last.arg = Min(WinCells(squares, X))

C3_Witness ==
  /\ last.op = "makeComputerMove"
  /\ squares = BoardOf({0, 1}, {4})
  /\ last.arg = 2

\* C4: on a board on which at most one player holds a line, calculateWinner
\* yields p iff a line is entirely p, draw iff no line is complete and no cell
\* is empty, and null otherwise.
C4_Evaluate ==
  ("calculateWinner" \notin dirty /\ ~(HoldsLine(squares, X) /\ HoldsLine(squares, O))) =>
     /\ winner = X <=> HoldsLine(squares, X)
     /\ winner = O <=> HoldsLine(squares, O)
     /\ winner = draw <=>
          (~HoldsLine(squares, X) /\ ~HoldsLine(squares, O) /\ Full(squares))
     /\ winner = null <=>
          (~HoldsLine(squares, X) /\ ~HoldsLine(squares, O) /\ ~Full(squares))

C4_Witness ==
  /\ "calculateWinner" \notin dirty
  /\ squares = BoardOf({0, 4, 8}, {1, 2})
  /\ winner = X

\* the session state a rejected move must leave alone
sessionState ==
  <<squares, history, currentMove, isXNext, isMyTurn, winner, simulatedGames>>

\* the reasons for which submitMove(i) is to be rejected
MustReject(i) ==
  \/ calculateWinner(squares) # null
  \/ winner # null
  \/ squares[i] # null
  \/ gameMode = "computer" /\ ~isXNext
  \/ gameMode = "online" /\ ~isMyTurn

\* C5: a click on cell i while the game is over, the cell is occupied or (in
\* VsComputer and Online modes) it is not the player's turn is rejected and
\* leaves Board, History, pointer, turn, Outcome and Rooms unchanged.
C5_RejectedMoveChangesNothing ==
  [][\A i \in Cells :
       (Settled /\ last'.op = "handleSquareClick" /\ last'.arg = i /\ MustReject(i))
         => (~last'.ok /\ UNCHANGED sessionState)]_vars

C5_Witness ==
  /\ last.op = "handleSquareClick" /\ ~last.ok
  /\ squares[last.arg] # null
  /\ winner = null
  /\ gameMode = "local"

\* C6: in every reachable state of every mode the Board holds as many X as O
\* or one X more.
C6_Alternation == Count(squares, X) - Count(squares, O) \in {0, 1}

C6_Witness ==
  /\ gameMode = "online"
  /\ last.op = "simulatedOpponent" /\ last.ok
  /\ Count(squares, X) = 1 /\ Count(squares, O) = 1

\* C7: in Local and VsComputer modes jumpToMove(i) with 0 <= i < History.length
\* leaves the Board equal to History[i].squares, the pointer equal to i and
\* the Outcome equal to the evaluation of History[i].squares.
C7_JumpRestores ==
  (last.op = "jumpToMove" /\ gameMode # "online"
     /\ 0 <= last.arg /\ last.arg < Len(history)) =>
     /\ last.ok
     /\ squares = history[last.arg + 1].squares
     /\ currentMove = last.arg
     /\ winner = calculateWinner(history[last.arg + 1].squares)

C7_Witness ==
  /\ last.op = "jumpToMove" /\ last.ok
  /\ gameMode = "local"
  /\ Settled
  /\ last.arg = 1 /\ Len(history) = 4
  /\ squares = history[2].squares /\ squares # history[4].squares

\* C8: in Local and VsComputer modes an accepted submitMove right after
\* jumpToMove(i) leaves History with i + 2 entries, the entries 0..i as they
\* were, the new Board in entry i + 1 and the pointer at i + 1.
C8_TruncationLaw ==
  [][(Settled /\ last.op = "jumpToMove" /\ last.ok
        /\ last'.op = "handleSquareClick" /\ last'.ok) =>
       /\ Len(history') = last.arg + 2
       /\ SubSeq(history', 1, last.arg + 1) = SubSeq(history, 1, last.arg + 1)
       /\ history'[last.arg + 2].squares = squares'
       /\ currentMove' = last.arg + 1]_vars

C8_Witness ==
  /\ last.op = "handleSquareClick" /\ last.ok
  /\ last.prevJump >= 0
  /\ last.dropped > 0
  /\ Len(history) = last.prevJump + 2
  /\ currentMove = last.prevJump + 1

\* C9: in Local and VsComputer modes the pointer is always a valid index into
\* History and History[pointer].squares is the live Board.
C9_PointerShowsBoard ==
  gameMode # "online" =>
     /\ 0 <= currentMove /\ currentMove < Len(history)
     /\ history[currentMove + 1].squares = squares

\* C10: resetGame leaves the Board all-Empty, History equal to the single
\* initial entry, the pointer at 0, the Outcome InProgress and the turn X.
C10_ResetToInitialEntry ==
  last.op = "resetGame" =>
     /\ squares = emptySquares
     /\ Len(history) = 1 /\ history[1].squares = emptySquares
     /\ currentMove = 0
     /\ winner = null
     /\ isXNext

\* C11: whenever History has an entry 0 (the entry shown as "Game start"),
\* that entry holds the all-Empty board.
C11_EntryZeroIsEmptyBoard ==
  Len(history) > 0 => history[1].squares = emptySquares

\* the outcome notifications of the winner effect
OutcomeToasts == {"It's a draw!", "Player wins!"}

\* the handlers and callbacks that change the Board when they are accepted
BoardOps == {"handleSquareClick", "jumpToMove", "makeComputerMove",
             "simulatedOpponent", "joinSimulatedGame"}

\* C12: the outcome notification is emitted once per transition into GameOver:
\* the effects emit it only after an accepted operation that changes the
\* Board, never again while the Board and the Outcome stay the same (as when the
\* sound is toggled).
C12_NotifiedOncePerGameOver ==
  (last.toasts \cap OutcomeToasts # {}) => (last.ok /\ last.op \in BoardOps)

\* C13: in Online mode jumpToMove(i), for any i, signals that time travel is
\* not available and leaves the Board, turn, pointer, History and Rooms
\* unchanged.
C13_OnlineJumpNotAllowed ==
  [][(Settled /\ gameMode = "online" /\ last'.op = "jumpToMove") =>
       /\ ~last'.ok
       /\ "Not available" \in last'.toasts
       /\ UNCHANGED <<squares, isXNext, isMyTurn, currentMove, history,
                      simulatedGames>>]_vars

ToMove(sq) == IF Count(sq, X) = Count(sq, O) THEN X ELSE O

\* C15: every accepted submitMove(i) sets cell i, which was Empty, to the
\* mover's mark and leaves the other 8 cells alone, appends one History entry
\* holding the new Board after the entries up to the pointer, sets the pointer
\* to the last History index and passes the turn to the other player.
C15_AcceptedMove ==
  [][(Settled /\ last'.op = "handleSquareClick" /\ last'.ok) =>
       LET i == last'.arg
           kept == SubSeq(history, 1, Min({currentMove + 1, Len(history)}))
       IN  /\ squares[i] = null
           /\ squares' = [squares EXCEPT ![i] = ToMove(squares)]
           /\ Len(history') = Len(kept) + 1
           /\ SubSeq(history', 1, Len(kept)) = kept
           /\ history'[Len(history')].squares = squares'
           /\ currentMove' = Len(history') - 1
           /\ gameMode # "online" => isXNext' = ~isXNext
           /\ gameMode = "online" => (isMyTurn /\ ~isMyTurn')]_vars

C15_Witness ==
  /\ last.op = "handleSquareClick" /\ last.ok
  /\ gameMode = "local"
  /\ squares[last.arg] = O
  /\ Count(squares, O) = 2
  /\ Len(history) = 4 /\ currentMove = 3
  /\ isXNext

\* the state of the session, without the timers and the record of the last
\* operation
programState ==
  <<squares, isXNext, winner, history, currentMove, gameMode, roomCode, isHost,
    playerSymbol, opponentConnected, isMyTurn, simulatedGames>>

\* C16: setMode(m) with m the current mode changes nothing; with another m it
\* leaves the Board all-Empty, History reset, the pointer at 0, the Outcome
\* InProgress and the turn X, and when m is online it leaves the session
\* without a room code and without a connected opponent.
C16_SetModeResets ==
  [][(Settled /\ last'.op = "setMode") =>
       /\ last'.ok <=> gameMode' # gameMode
       /\ ~last'.ok => UNCHANGED programState
       /\ last'.ok =>
            /\ squares' = emptySquares
            /\ history' = <<>>
            /\ currentMove' = 0
            /\ winner' = null
            /\ isXNext'
            /\ gameMode' = "online" => (roomCode' = NoCode /\ ~opponentConnected')]_vars

\* the accepted moves of an online session: clicks and the simulated opponent
OnlineMove(op) == Settled /\ gameMode = "online" /\ last'.op = op /\ last'.ok

\* C17: in Online mode an accepted click of the host places X and one of a
\* joiner places O, the simulated opponent places the mark the local player
\* does not hold, and the move made on the empty Board places X.
C17_OnlineMarks ==
  [][/\ OnlineMove("handleSquareClick") =>
          squares'[last'.arg] = IF isHost THEN X ELSE O
     /\ OnlineMove("simulatedOpponent") =>
          /\ squares'[last'.arg] \in {X, O}
          /\ squares'[last'.arg] # playerSymbol
     /\ (OnlineMove("handleSquareClick") \/ OnlineMove("simulatedOpponent")) =>
          (Count(squares', X) + Count(squares', O) = 1 => Count(squares', X) = 1)]_vars

\* a joiner's click answered the X of the simulated host
C17_Witness ==
  /\ gameMode = "online" /\ ~isHost /\ playerSymbol = O
  /\ last.op = "handleSquareClick" /\ last.ok
  /\ squares[last.arg] = O
  /\ Count(squares, X) = 1 /\ Count(squares, O) = 1

\* C18: createRoom leaves a Room with an all-Empty board, turn X, the host as
\* X and no joiner, and the opponent not connected; if no other command is
\* issued the simulated join fires, and it leaves the O slot filled, the
\* opponent connected and the Room's board all-Empty.
C18_CreateRoomThenJoin ==
  /\ [](last.op = "createRoom" =>
          /\ roomCode \in DOMAIN simulatedGames
          /\ simulatedGames[roomCode] = newGame(null)
          /\ isHost /\ playerSymbol = X
          /\ ~opponentConnected)
  /\ [][(last.op = "createRoom" /\ last'.op = "joinSimulatedGame") =>
          /\ simulatedGames'[roomCode].playerO # null
          /\ simulatedGames'[roomCode].squares = emptySquares
          /\ opponentConnected']_vars
  /\ (last.op = "createRoom" ~> last.op # "createRoom")

C18_Witness ==
  /\ last.op = "joinSimulatedGame"
  /\ gameMode = "online" /\ isHost
  /\ roomCode \in DOMAIN simulatedGames
  /\ simulatedGames[roomCode] = newGame("simulated")
  /\ opponentConnected
  /\ Len(joinTimers) = 1

\* C19: joinRoom(code) with a code never fails: where no Room exists for the
\* code it creates one with an all-Empty board and the O slot filled, where
\* one exists it keeps that Room's board and turn flag and fills the O slot,
\* and in both cases it reports the opponent connected.
C19_JoinRoom ==
  [][(Settled /\ last'.op = "joinRoom" /\ last'.arg # NoCode) =>
       LET code == last'.arg
       IN  /\ last'.ok
           /\ roomCode' = code
           /\ opponentConnected'
           /\ code \in DOMAIN simulatedGames'
           /\ simulatedGames'[code].playerO # null
           /\ IF code \in DOMAIN simulatedGames
                THEN /\ simulatedGames'[code].squares = simulatedGames[code].squares
                     /\ simulatedGames'[code].isXNext = simulatedGames[code].isXNext
                ELSE /\ simulatedGames'[code].squares = emptySquares
                     /\ simulatedGames'[code].isXNext]_vars

\* a Room with a mark on its board was joined
C19_Witness ==
  /\ last.op = "joinRoom" /\ last.ok
  /\ roomCode = last.arg
  /\ roomCode \in DOMAIN simulatedGames
  /\ simulatedGames[roomCode].squares # emptySquares
  /\ simulatedGames[roomCode].playerO = "guest"
  /\ opponentConnected

\* C20: every rejected submitMove, whether for an occupied cell, a game that
\* is over or a turn that is not the caller's, and in every mode, notifies the
\* UI of the invalid move.
C20_RejectedMoveNotifies ==
  (last.op = "handleSquareClick" /\ ~last.ok) => last.toasts # {}

\* the callbacks of the three kinds of timers
TimerOps == {"makeComputerMove", "simulatedOpponent", "joinSimulatedGame"}

\* C21: once setMode or resetGame has left the session in Local or VsComputer
\* mode, the callback of a timer scheduled before that call changes nothing of
\* the session: not opponent-connected, not the Rooms, not the Board.
C21_NoStaleCallback ==
  [][(/\ Settled /\ gameMode # "online"
      /\ last.op \in {"setMode", "resetGame"} /\ last.ok
      /\ last'.op \in TimerOps) => UNCHANGED programState]_vars

\* the cells on which boards a and b differ
DiffCells(a, b) == {k \in Cells : a[k] # b[k]}

\* C22: in Online mode the simulated opponent's callback applies a move only
\* while the Room's game and the session are InProgress and it is not the
\* local player's turn, and it applies it to the Room's current Board; the
\* effects that run once the Outcome is stored leave no timer of the
\* simulated opponent pending, so a timer scheduled as the game ended never
\* applies a move.
C22_NoMoveAfterGameOver ==
  [][/\ (Settled /\ last'.op = "simulatedOpponent" /\ last'.ok) =>
          /\ gameMode = "online"
          /\ roomCode \in DOMAIN simulatedGames
          /\ simulatedGames[roomCode].winner = null
          /\ winner = null
          /\ ~isMyTurn
          /\ DiffCells(simulatedGames[roomCode].squares, squares') = {last'.arg}
          /\ simulatedGames'[roomCode].squares = squares'
     /\ (~Settled /\ gameMode = "online" /\ winner # null) =>
          simulatedOpponentTimer' = {}]_vars

\* a timer of the simulated opponent is pending as the game has just ended
C22_Witness ==
  /\ gameMode = "online" /\ winner \in {X, O}
  /\ simulatedOpponentTimer # {}

\* the browser runs the callback of every timer that stays pending, and React
\* runs the pending effects
SpecOnlineFair ==
  /\ SpecOnline
  /\ WF_vars(RunEffects)
  /\ WF_vars(JoinTimerFires)
  /\ WF_vars(OnlineOpponentTimerFires)

\* the simulated opponent is to move in a connected room whose game is
\* InProgress
OpponentToMove ==
  /\ Settled
  /\ gameMode = "online" /\ roomCode \in DOMAIN simulatedGames
  /\ opponentConnected /\ ~isMyTurn
  /\ winner = null /\ simulatedGames[roomCode].winner = null

\* the simulated opponent can move within the bounds of SpecOnline
OpponentMoveInBounds ==
  /\ Len(history) < MaxOnlineHist
  /\ \E i \in 0..MaxOnlineCell : simulatedGames[roomCode].squares[i] = null

\* the simulated opponent's callback has run: it placed its mark, the Board
\* shows the Room's Board and the turn is the local player's
OpponentMoved ==
  /\ last.op = "simulatedOpponent" /\ last.ok
  /\ roomCode \in DOMAIN simulatedGames
  /\ squares = simulatedGames[roomCode].squares
  /\ squares[last.arg] = (IF playerSymbol = X THEN O ELSE X)
  /\ isMyTurn

\* C23: in Online simulated mode, when it is the simulated opponent's turn in
\* a connected room whose game is InProgress, the simulated opponent
\* eventually applies one move to the Room, the Board shows it and the turn
\* returns to the local player.
C23_OpponentEventuallyMoves ==
  (OpponentToMove /\ OpponentMoveInBounds) ~> OpponentMoved

\* the session is online in a room of the registry
InRoom == gameMode = "online" /\ roomCode \in DOMAIN simulatedGames

\* C24: in Online simulated mode, once the effects have settled the Board
\* equals the Room's Board cell for cell; a pass of the effects that finds
\* them different overwrites the Board with the Room's Board and never writes
\* the session's Board into the Room; and every new Board of a session in a
\* room is the Room's Board.
C24_RoomAuthoritative ==
  /\ [](Settled /\ InRoom => squares = simulatedGames[roomCode].squares)
  /\ [][(~Settled /\ InRoom /\ squares # simulatedGames[roomCode].squares) =>
          /\ squares' = simulatedGames[roomCode].squares
          /\ simulatedGames'[roomCode].squares
               \in {simulatedGames[roomCode].squares, emptySquares}]_vars
  /\ [][(InRoom /\ InRoom' /\ squares' # squares) =>
          \/ squares' = simulatedGames'[roomCode'].squares
          \/ squares' = simulatedGames[roomCode].squares]_vars

\* the effects have just overwritten a Board with marks by the Room's other
\* Board with marks
C24_Witness ==
  /\ InRoom /\ Settled
  /\ last.op = "joinSimulatedGame"
  /\ squares # emptySquares
  /\ Len(history) > 0 /\ history[Len(history)].squares # squares

\* C25: in every settled state of every mode the stored winner is
\* calculateWinner of the live Board (it fails for a host whose click
\* completes a line: the Room is re-initialised, the Board is emptied and the
\* winner the Room kept is stored again).
C25_WinnerIsEvaluatedBoard ==
  Settled => winner = calculateWinner(squares)

\* C26: in VsComputer mode the pass of the effects that follows a reset, a
\* mode change or a turn change cancels the pending timer of the computer's
\* move, so a timer that is pending once the effects have settled was
\* scheduled in the live session: the mode is VsComputer, O is to move, the
\* game is InProgress and the Board its callback reads is the live Board.
C26_ComputerTimerCancelled ==
  /\ [](Settled =>
          \A t \in computerTimer :
            /\ gameMode = "computer" /\ ~isXNext /\ winner = null
            /\ t.squares = squares /\ t.history = history
            /\ t.gameMode = gameMode /\ t.isXNext = isXNext)
  /\ [][(/\ ~Settled /\ computerTimer # {}
         /\ (gameMode # "computer" \/ isXNext \/ winner # null)) =>
          computerTimer' = {}]_vars

\* resetGame or setMode has just run while the computer's timer was pending
C26_Witness ==
  /\ last.op \in {"resetGame", "setMode"} /\ last.ok
  /\ computerTimer # {}
  /\ \A t \in computerTimer : t.squares # squares

\* C27: every History entry but the first differs from the entry before it in
\* exactly one cell, and that cell is Empty in the entry before.
C27_HistoryStepsByOneMark ==
  \A i \in 2..Len(history) :
    \E k \in Cells :
      /\ DiffCells(history[i - 1].squares, history[i].squares) = {k}
      /\ history[i - 1].squares[k] = null

\* C28: in Local and VsComputer mode an accepted jumpToMove leaves History as
\* it is and changes nothing but the Board, the pointer, the turn and the
\* Outcome; History only loses entries in an accepted handleSquareClick.
C28_JumpKeepsHistory ==
  /\ [][(Settled /\ gameMode # "online" /\ last'.op = "jumpToMove") =>
          /\ history' = history
          /\ UNCHANGED <<gameMode, roomCode, isHost, playerSymbol,
                         opponentConnected, isMyTurn, simulatedGames>>]_vars
  /\ [][(/\ gameMode # "online"
         /\ gameMode' = gameMode
         /\ ~(last'.op = "resetGame" /\ Settled)
         /\ \E k \in 1..Len(history) :
              k > Len(history') \/ history'[k] # history[k]) =>
          (Settled /\ last'.op = "handleSquareClick" /\ last'.ok)]_vars

\* an accepted jump back over at least two entries has just run
C28_Witness ==
  /\ gameMode # "online"
  /\ last.op = "jumpToMove" /\ last.ok
  /\ currentMove + 2 < Len(history)
  /\ squares = history[currentMove + 1].squares

\* the place of a line in the order rows 0-2, columns 0-2, diagonal 0-4-8,
\* diagonal 2-4-6
LineRank(L) ==
  IF \E r \in 0..2 : L = {3 * r, 3 * r + 1, 3 * r + 2}
    THEN 1 + (CHOOSE r \in 0..2 : L = {3 * r, 3 * r + 1, 3 * r + 2})
  ELSE IF \E k \in 0..2 : L = {k, k + 3, k + 6}
    THEN 4 + (CHOOSE k \in 0..2 : L = {k, k + 3, k + 6})
  ELSE IF L = {0, 4, 8} THEN 7
  ELSE 8

\* the lines one player holds entirely
CompleteLines(sq) ==
  {L \in LineSets : \E p \in {X, O} : \A k \in L : sq[k] = p}

\* the owner of the first complete line, else draw on a full board, else null
Evaluate(sq) ==
  IF CompleteLines(sq) # {}
    THEN LET first == CHOOSE L \in CompleteLines(sq) :
                        \A M \in CompleteLines(sq) : LineRank(L) <= LineRank(M)
         IN  sq[CHOOSE k \in first : TRUE]
  ELSE IF Full(sq) THEN draw
  ELSE null

\* C29: on every board with a complete line, also one on which both X and O
\* hold a line, calculateWinner yields the owner of the first complete line in
\* the order rows 0-2, columns 0-2, diagonal 0-4-8, diagonal 2-4-6.
C29_FirstLineWins ==
  ("calculateWinner" \notin dirty /\ CompleteLines(squares) # {}) =>
     winner = Evaluate(squares)

\* both players hold a row and the first one in the order is X's
C29_Witness ==
  /\ "calculateWinner" \notin dirty
  /\ squares = BoardOf({0, 1, 2}, {6, 7, 8})
  /\ winner = X

\* the empty cells on which placing p makes p the evaluated winner
WinningCells(sq, p) ==
  {i \in Cells : sq[i] = null /\ Evaluate([sq EXCEPT ![i] = p]) = p}

\* C30: findWinningMove(board, p) returns the lowest empty cell on which
\* placing p makes the evaluation a win of p, and -1 iff there is no such
\* cell; it never returns a cell that only fills the board to a draw.
C30_FindWinningMove ==
  last.op = "findWinningMove" =>
    LET W == WinningCells(squares, last.arg)
    IN  /\ W # {} => last.result = Min(W)
        /\ W = {} <=> last.result = -1
        /\ last.result # -1 =>
             Evaluate([squares EXCEPT ![last.result] = last.arg]) # draw

\* X has two winning cells and findWinningMove returned the lower one
C30_Witness ==
  /\ last.op = "findWinningMove" /\ last.arg = X
  /\ squares = BoardOf({0, 1, 6}, {4, 5})
  /\ WinningCells(squares, X) = {2, 3}
  /\ last.result = 2

\* C31: on an InProgress, non-full board on which neither O nor X has a
\* winning cell, makeComputerMove selects cell 4 if it is Empty, otherwise an
\* Empty corner if there is one, otherwise an Empty cell; the selected cell is
\* always Empty.
C31_CentreCornerAny ==
  (/\ last.op = "makeComputerMove"
   /\ ~HoldsLine(squares, X) /\ ~HoldsLine(squares, O) /\ ~Full(squares)
   /\ WinCells(squares, O) = {} /\ WinCells(squares, X) = {}) =>
     /\ last.arg \in Cells
     /\ squares[last.arg] = null
     /\ squares[4] = null => last.arg = 4
     /\ (squares[4] # null /\ \E k \in {0, 2, 6, 8} : squares[k] = null) =>
          last.arg \in {0, 2, 6, 8}

\* the centre is taken and the policy drew the last of the four Empty corners
C31_Witness ==
  /\ last.op = "makeComputerMove"
  /\ squares = BoardOf({4}, {})
  /\ last.arg = 8

\* C32: in Online simulated mode, once the effects have settled, isMyTurn is
\* true iff the Room's turn flag designates the local player's mark.
C32_TurnFollowsRoom ==
  (Settled /\ InRoom) =>
     (isMyTurn <=>
        \/ simulatedGames[roomCode].isXNext /\ playerSymbol = X
        \/ ~simulatedGames[roomCode].isXNext /\ playerSymbol = O)

\* a joiner holding O waits for the simulated opponent to place the first X
C32_Witness ==
  /\ Settled /\ InRoom
  /\ playerSymbol = O /\ simulatedGames[roomCode].isXNext
  /\ ~isMyTurn

\* the board History entry i was made from: the entry before it, or the empty
\* board
BoardBefore(i) == IF i = 1 THEN emptySquares ELSE history[i - 1].squares

\* C33 as stated: every History entry stores the player who is to move next
\* from its snapshot, and an accepted jumpToMove(i) sets the turn to that
\* stored player.
C33_EntryStoresNextPlayer ==
  /\ [](\A i \in 1..Len(history) :
          history[i].currentPlayer = ToMove(history[i].squares))
  /\ [][(Settled /\ last'.op = "jumpToMove" /\ last'.ok) =>
          isXNext' = (history[last'.arg + 1].currentPlayer = X)]_vars

\* C33, amended: in Local and VsComputer mode every History entry stores the
\* player whose mark produced its snapshot, and an accepted jumpToMove(i) sets
\* the turn to the other player, who is the one to move next from the
\* snapshot.
C33_EntryStoresMover ==
  /\ [](gameMode # "online" =>
          \A i \in 1..Len(history) :
            \E k \in Cells :
              /\ DiffCells(BoardBefore(i), history[i].squares) = {k}
              /\ history[i].squares[k] = history[i].currentPlayer)
  /\ [][(Settled /\ last'.op = "jumpToMove" /\ last'.ok) =>
          /\ isXNext' = (history[last'.arg + 1].currentPlayer = O)
          /\ isXNext' = (ToMove(squares') = X)]_vars

\* a jump back to an entry O made has handed the turn to X
C33_Witness ==
  /\ gameMode = "local" /\ Settled
  /\ last.op = "jumpToMove" /\ last.ok
  /\ history[last.arg + 1].currentPlayer = O
  /\ last.arg + 1 < Len(history)
  /\ isXNext

\* every mark of board a is on board b
KeepsMarks(a, b) == \A k \in Cells : a[k] # null => b[k] = a[k]

\* C34: in Online simulated mode, in every step other than resetGame and
\* setMode, the marks of the live Board stay on the live Board and the marks
\* of the Room's Board stay on the Room's Board.
C34_MarksStay ==
  [][(/\ InRoom /\ InRoom' /\ roomCode' = roomCode
      /\ ~(Settled /\ last'.op \in {"resetGame", "setMode"})) =>
       /\ KeepsMarks(squares, squares')
       /\ KeepsMarks(simulatedGames[roomCode].squares,
                     simulatedGames'[roomCode].squares)]_vars

\* the pending pass of the effects leaves the render as it is and the same
\* effects pending: the passes repeat without end
EffectsRepeat ==
  /\ ~Settled
  /\ LET u == effectsUpdate(Render, dirty)
     IN  /\ \A f \in DOMAIN u \ {"puts"} : u[f] = Render[f]
         /\ applyPuts(simulatedGames, u.puts) = simulatedGames
         /\ {e \in Effects : deps[e] \cap changed(u, {}) # {}} = dirty

\* C35: the effects that a command or a timer callback sets off come to rest:
\* no pass of the effects reproduces the render and the pending effects it
\* started from; in particular, once a game has ended in Online mode the
\* winner effect stops rewriting the Room.
C35_EffectsSettle == ~EffectsRepeat

\* C36: in a Local game without reset, jump or mode change at most 9 clicks
\* are accepted, a full Board has a stored Outcome once the effects have
\* settled, and once the Outcome is a win or a draw every click is rejected
\* and changes nothing.
C36_GameEnds ==
  /\ [](Len(history) <= 9)
  /\ []((Settled /\ Len(history) = 9) => winner \in {X, O, draw})
  /\ [][(Settled /\ winner # null /\ last'.op = "handleSquareClick") =>
          (~last'.ok /\ UNCHANGED programState)]_vars

\* a click after the ninth accepted move of a drawn game was rejected
C36_Witness ==
  /\ Settled /\ winner = draw /\ Len(history) = 9
  /\ last.op = "handleSquareClick" /\ ~last.ok

\* C37: in every mode jumpToMove(i) with i < 0 or i >= History.length, so with
\* any i while History is empty, is rejected and changes nothing: not the
\* Board, the turn, the Outcome, the pointer or History.
C37_JumpOutOfRange ==
  [][(/\ Settled /\ last'.op = "jumpToMove"
      /\ (last'.arg < 0 \/ last'.arg >= Len(history))) =>
       (~last'.ok /\ UNCHANGED programState)]_vars

\* a jump to the index just past the last History entry of a local game was
\* rejected
C37_Witness ==
  /\ last.op = "jumpToMove" /\ ~last.ok
  /\ gameMode = "local"
  /\ Len(history) > 1 /\ last.arg = Len(history)
  /\ currentMove = Len(history) - 1

====
